---- MODULE Spec2Model ----
(***************************************************************************)
(* The appointment reminder scheduler (edge function                       *)
(* check-appointment-reminders) as a state machine.                        *)
(*                                                                         *)
(* One invocation is a process that walks through the handler: it reads    *)
(* the clock, fetches today's scheduled appointments, and for every        *)
(* (appointment, tier) whose window test succeeds looks up the patient     *)
(* profile, the doctor and the auth user, calls send-email and inserts a   *)
(* notification row. Every await is one step; the stores and the e-mail    *)
(* function are the environment.                                           *)
(***************************************************************************)
EXTENDS Integers, Sequences, FiniteSets, TLC

VARIABLES
    clock,          \* UTC minutes since day 0, 00:00 (the server's clock)
    tz,             \* the server's UTC offset in minutes
    appointments,   \* table appointments: sequence of rows
    notifications,  \* table notifications: sequence of rows, in insert order
    emailCalls,     \* POSTs made to functions/v1/send-email, with their result
    insertCalls,    \* insert() calls made on table notifications, with their result
    runs            \* the invocations of the handler: run id -> its local state

vars == <<clock, tz, appointments, notifications, emailCalls, insertCalls, runs>>

NULL == "null"

\* ---------------------------------------------------------------- bounds
NumAppts == 3
MaxRuns == 2
ClockSpan == 4

RunIds == 1..MaxRuns
DayMinutes == 24 * 60

\* ------------------------------------------------------- the environment
\* Local time of day of the earliest invocation (11:28).
ClockStart == 11 * 60 + 28

\* UTC offsets of the server.
TzOffsets == {0, 12 * 60}

\* Rows of table profiles (user_id -> full_name); p2 has no profile row.
Profiles == [p1 |-> "Ann", p2 |-> NULL, p3 |-> "Cy"]

\* auth.users (id -> email); p3 has no e-mail address.
AuthUsers == [p1 |-> "ann@mail", p2 |-> "bo@mail", p3 |-> NULL]

\* Rows of table doctors (id -> full_name); d2 has no row.
Doctors == [d1 |-> "Who", d2 |-> NULL]

\* appointment_time as the store returns it, "HH:MM:SS", already split at ':'.
Time(h, m) == <<h, m, 0>>

\* What is booked: for the odd and for the even appointment ids, the rows
\* (all but the id) an appointment is drawn from.
Booking(p, d, date, time, status) ==
    [patient_id |-> p, doctor_id |-> d, appointment_date |-> date,
     appointment_time |-> time, status |-> status]

BookingChoices ==
    << { Booking("p1", "d1", 0, Time(12, 30), "scheduled"),
         Booking("p1", "d1", 0, Time(12, 30), "cancelled"),
         Booking("p1", "d1", 1, Time(12, 0), "scheduled"),
         Booking("p1", "d1", 0, Time(11, 20), "scheduled") },
       { Booking("p2", "d2", 0, Time(12, 0), "scheduled"),
         Booking("p2", "d2", 0, Time(12, 0), "completed"),
         Booking("p3", "d1", 0, Time(11, 40), "scheduled") } >>

BookingsFor(n) == BookingChoices[((n - 1) % 2) + 1]

WithId(b, id) ==
    [id |-> id, patient_id |-> b.patient_id, doctor_id |-> b.doctor_id,
     appointment_date |-> b.appointment_date,
     appointment_time |-> b.appointment_time, status |-> b.status]

\* ------------------------------------------------------------ the handler
\* Variant of the tiers: a reminder at 59 minutes instead of 30.
reminderMinutesClose == <<60, 59, 10>>

\* const reminderMinutes = [60, 30, 10]
reminderMinutes == <<60, 30, 10>>

\* now.toISOString().split('T')[0]: the UTC calendar date
todayDateOf(now) == now \div DayMinutes

\* now.getHours(), now.getMinutes(): the server's local time of day
currentHourOf(now, off) == ((now + off) % DayMinutes) \div 60
currentMinuteOf(now, off) == ((now + off) % DayMinutes) % 60

\* aptHour * 60 + aptMinute, after appointment_time.split(':').map(Number)
appointmentTimeInMinutes(apt) == apt.appointment_time[1] * 60 + apt.appointment_time[2]

currentTimeInMinutes(run) == run.currentHour * 60 + run.currentMinute

\* Variant of the subtraction: the minutes from now to the next occurrence of
\* the appointment's time of day, across midnight if need be.
minutesUntilAppointmentWrapping(apt, run) ==
    (appointmentTimeInMinutes(apt) - currentTimeInMinutes(run)) % DayMinutes

\* appointmentTimeInMinutes - currentTimeInMinutes, both since midnight
minutesUntilAppointment(apt, run) ==
    appointmentTimeInMinutes(apt) - currentTimeInMinutes(run)

\* Variant of the window test: the upper end of the window is excluded.
InWindowStrict(minutesUntil, reminderTime) ==
    minutesUntil >= reminderTime - 1 /\ minutesUntil < reminderTime + 1

\* Variant of the window test: a tier whose time has come fires, however late.
InWindowLate(minutesUntil, reminderTime) ==
    minutesUntil <= reminderTime + 1

\* Variant of the window test: the distance to the appointment, on either side.
InWindowAbs(minutesUntil, reminderTime) ==
    LET distance == IF minutesUntil < 0 THEN -minutesUntil ELSE minutesUntil
    IN distance >= reminderTime - 1 /\ distance <= reminderTime + 1

\* Variant of the window test: two minutes of tolerance on either side.
InWindowWide(minutesUntil, reminderTime) ==
    minutesUntil >= reminderTime - 2 /\ minutesUntil <= reminderTime + 2

\* Variant of the window test: no tolerance.
InWindowExact(minutesUntil, reminderTime) ==
    minutesUntil = reminderTime

\* the window test of the inner loop
InWindow(minutesUntil, reminderTime) ==
    minutesUntil >= reminderTime - 1 /\ minutesUntil <= reminderTime + 1

\* Variant of the query: the status filter is left out.
IsCandidateAnyStatus(row, todayDate) ==
    row.appointment_date = todayDate

\* .select(id, patient_id, appointment_date, appointment_time, doctor_id)
\* .eq('appointment_date', todayDate).eq('status', 'scheduled')
IsCandidate(row, todayDate) ==
    row.appointment_date = todayDate /\ row.status = "scheduled"

Selected(row) ==
    [id |-> row.id, patient_id |-> row.patient_id,
     appointment_date |-> row.appointment_date,
     appointment_time |-> row.appointment_time, doctor_id |-> row.doctor_id]

RECURSIVE SelectCandidates(_, _)
SelectCandidates(rows, todayDate) ==
    IF rows = <<>> THEN <<>>
    ELSE (IF IsCandidate(Head(rows), todayDate) THEN <<Selected(Head(rows))>> ELSE <<>>)
         \o SelectCandidates(Tail(rows), todayDate)

IdleRun ==
    [pc |-> "idle", now |-> 0, todayDate |-> 0, currentHour |-> 0, currentMinute |-> 0,
     fetched |-> NULL, fetchedFrom |-> <<>>, appointments |-> <<>>, i |-> 1, k |-> 1,
     profile |-> NULL, doctorName |-> NULL, patientEmail |-> NULL,
     sentReminders |-> <<>>, response |-> NULL]

\* The state before the first request: the tables as booked, nothing sent yet.
InitWith(offsets) ==
    /\ tz \in offsets
    /\ clock = (ClockStart - tz) % DayMinutes
    /\ appointments \in { f \in [1..NumAppts -> UNION {{WithId(b, n) : b \in BookingsFor(n)} : n \in 1..NumAppts}] :
                            \A n \in 1..NumAppts : f[n].id = n }
    /\ notifications = <<>>
    /\ emailCalls = <<>>
    /\ insertCalls = <<>>
    /\ runs = [r \in RunIds |-> IdleRun]

Init == InitWith(TzOffsets)

\* ---------------------------------------------------------------- steps
\* What the collaborators may answer. A store call answers with { data, error }
\* or its promise rejects ("throw"); send-email answers 2xx ("ok"), another
\* status ("not_ok"), or the request itself fails ("throw").
AnyOutcome ==
    [fetch |-> {"data", "error", "throw"}, lookup |-> {"result", "throw"},
     email |-> {"ok", "not_ok", "throw"}, insert |-> {"ok", "error", "throw"}]

\* The failures that leave a pair without its row or its e-mail while the run
\* still answers: the fetch or the insert returns an error, send-email
\* answers with an error status.
SomeFailures ==
    [fetch |-> {"data", "error"}, lookup |-> {"result"},
     email |-> {"ok", "not_ok"}, insert |-> {"ok", "error"}]

\* Every collaborator answers with success.
NoFailure ==
    [fetch |-> {"data"}, lookup |-> {"result"}, email |-> {"ok"}, insert |-> {"ok"}]

Set(r, rec) == runs' = [runs EXCEPT ![r] = rec]

\* The item the loops are at, and the position after it.
Apt(run) == run.appointments[run.i]
Tier(run) == reminderMinutes[run.k]

\* Variant of the loop step: after the last tier the loops start over with the
\* first tier of the same appointment.
AdvanceTierOnly(run) ==
    [run EXCEPT !.k = (run.k % Len(reminderMinutes)) + 1,
                !.profile = NULL, !.doctorName = NULL, !.patientEmail = NULL]

\* for (const reminderTime of reminderMinutes) inside for (const appointment of
\* appointments || []): the next tier, or the first tier of the next appointment.
Advance(run) ==
    IF run.k < Len(reminderMinutes)
    THEN [run EXCEPT !.k = run.k + 1,
                     !.profile = NULL, !.doctorName = NULL, !.patientEmail = NULL]
    ELSE [run EXCEPT !.i = run.i + 1, !.k = 1,
                     !.profile = NULL, !.doctorName = NULL, !.patientEmail = NULL]

\* Variant of the catch: the error body goes out with the default status.
CaughtAs200(run) ==
    [run EXCEPT !.pc = "done",
                !.profile = NULL, !.doctorName = NULL, !.patientEmail = NULL,
                !.response = [status |-> 200, body |-> [error |-> "message"]]]

\* catch (error) { return new Response({ error }, { status: 500 }) }
Caught(run) ==
    [run EXCEPT !.pc = "done",
                !.profile = NULL, !.doctorName = NULL, !.patientEmail = NULL,
                !.response = [status |-> 500, body |-> [error |-> "message"]]]

\* Variant of the request: the handler first takes a lease that no other
\* invocation holds.
StartWithLease(r, env) ==
    /\ runs[r].pc = "idle"
    /\ \A q \in RunIds : q < r => runs[q].pc # "idle"
    /\ \A q \in RunIds \ {r} : runs[q].pc \in {"idle", "done"}
    /\ \E now \in clock .. ((ClockStart - tz) % DayMinutes) + ClockSpan :
          /\ clock' = now
          /\ runs' = [runs EXCEPT ![r] =
                         [runs[r] EXCEPT !.pc = "fetch", !.now = now,
                                         !.todayDate = now \div DayMinutes,
                                         !.currentHour = ((now + tz) % DayMinutes) \div 60,
                                         !.currentMinute = ((now + tz) % DayMinutes) % 60]]
    /\ UNCHANGED <<tz, appointments, notifications, emailCalls, insertCalls>>

\* A request arrives: new Date(), todayDate, currentHour, currentMinute.
\* The clock never runs backwards; ClockSpan caps how far it advances.
Start(r, env) ==
    /\ runs[r].pc = "idle"
    /\ \A q \in RunIds : q < r => runs[q].pc # "idle"
    /\ \E now \in clock .. ((ClockStart - tz) % DayMinutes) + ClockSpan :
          /\ clock' = now
          /\ Set(r, [runs[r] EXCEPT !.pc = "fetch", !.now = now,
                                    !.todayDate = todayDateOf(now),
                                    !.currentHour = currentHourOf(now, tz),
                                    !.currentMinute = currentMinuteOf(now, tz)])
    /\ UNCHANGED <<tz, appointments, notifications, emailCalls, insertCalls>>

\* Variant of the fetch handling: fetchError is not looked at, the loop runs
\* over appointments || [].
AfterFetchIgnoringError(run, outcome, rows) ==
    IF outcome = "throw"
    THEN [Caught(run) EXCEPT !.fetched = outcome]
    ELSE [run EXCEPT !.pc = "loop", !.fetched = outcome, !.i = 1, !.k = 1,
                     !.appointments = IF outcome = "data" THEN rows ELSE <<>>]

\* if (fetchError) { throw fetchError }, else on to the loop over
\* appointments || []. A rejected promise lands in the same catch.
AfterFetch(run, outcome, rows) ==
    IF outcome = "data"
    THEN [run EXCEPT !.pc = "loop", !.fetched = outcome, !.i = 1, !.k = 1,
                     !.appointments = rows]
    ELSE [Caught(run) EXCEPT !.fetched = outcome]

\* await supabase.from('appointments').select(...).eq(...).eq(...)
\* (fetchedFrom remembers the table as the query saw it)
Fetch(r, env) ==
    /\ runs[r].pc = "fetch"
    /\ \E outcome \in env.fetch :
          Set(r, [AfterFetch(runs[r], outcome,
                             SelectCandidates(appointments, runs[r].todayDate))
                     EXCEPT !.fetchedFrom = appointments])
    /\ UNCHANGED <<clock, tz, appointments, notifications, emailCalls, insertCalls>>

\* Variant of the loop: a pair that already has a row in table notifications
\* is passed over.
LoopDedup(r, env) ==
    LET run == runs[r] IN
    /\ run.pc = "loop"
    /\ IF run.i > Len(run.appointments)
       THEN Set(r, [run EXCEPT !.pc = "done",
                       !.response = [status |-> 200,
                                     body |-> [success |-> TRUE,
                                               remindersSent |-> Len(run.sentReminders)]]])
       ELSE IF /\ InWindow(minutesUntilAppointment(Apt(run), run), Tier(run))
               /\ ~\E n \in DOMAIN notifications :
                      /\ notifications[n].row.related_id = Apt(run).id
                      /\ notifications[n].row.title[2] = Tier(run)
            THEN Set(r, [run EXCEPT !.pc = "profile"])
            ELSE Set(r, Advance(run))
    /\ UNCHANGED <<clock, tz, appointments, notifications, emailCalls, insertCalls>>

\* Variant of the loop: the appointment's status is read again before a pair
\* is dispatched.
LoopRechecking(r, env) ==
    LET run == runs[r] IN
    /\ run.pc = "loop"
    /\ IF run.i > Len(run.appointments)
       THEN Set(r, [run EXCEPT !.pc = "done",
                       !.response = [status |-> 200,
                                     body |-> [success |-> TRUE,
                                               remindersSent |-> Len(run.sentReminders)]]])
       ELSE IF /\ InWindow(minutesUntilAppointment(Apt(run), run), Tier(run))
               /\ appointments[Apt(run).id].status = "scheduled"
            THEN Set(r, [run EXCEPT !.pc = "profile"])
            ELSE Set(r, Advance(run))
    /\ UNCHANGED <<clock, tz, appointments, notifications, emailCalls, insertCalls>>

\* The loop heads and the window test; after the last appointment, the
\* 200 response with remindersSent = sentReminders.length.
Loop(r, env) ==
    LET run == runs[r] IN
    /\ run.pc = "loop"
    /\ IF run.i > Len(run.appointments)
       THEN Set(r, [run EXCEPT !.pc = "done",
                       !.response = [status |-> 200,
                                     body |-> [success |-> TRUE,
                                               remindersSent |-> Len(run.sentReminders)]]])
       ELSE IF InWindow(minutesUntilAppointment(Apt(run), run), Tier(run))
            THEN Set(r, [run EXCEPT !.pc = "profile"])
            ELSE Set(r, Advance(run))
    /\ UNCHANGED <<clock, tz, appointments, notifications, emailCalls, insertCalls>>

\* await supabase.from('profiles').select('full_name').eq('user_id', ...).single()
\* data is null when the row is missing; a rejected promise is not caught here.
GetProfile(r, env) ==
    LET run == runs[r] IN
    /\ run.pc = "profile"
    /\ \E outcome \in env.lookup :
          IF outcome = "result"
          THEN Set(r, [run EXCEPT !.pc = "doctor", !.profile = Profiles[Apt(run).patient_id]])
          ELSE Set(r, Caught(run))
    /\ UNCHANGED <<clock, tz, appointments, notifications, emailCalls, insertCalls>>

\* await supabase.from('doctors').select('full_name').eq('id', ...).single()
\* doctorName = doctorData?.full_name || "Doctor"
GetDoctor(r, env) ==
    LET run == runs[r]
        full_name == Doctors[Apt(run).doctor_id]
    IN
    /\ run.pc = "doctor"
    /\ \E outcome \in env.lookup :
          IF outcome = "result"
          THEN Set(r, [run EXCEPT !.pc = "user",
                          !.doctorName = IF full_name = NULL THEN "Doctor" ELSE full_name])
          ELSE Set(r, Caught(run))
    /\ UNCHANGED <<clock, tz, appointments, notifications, emailCalls, insertCalls>>

\* Variant of the address lookup: a pair without an address is dropped, the
\* loop moves on without the insert.
GetUserSkipPair(r, env) ==
    LET run == runs[r]
        email == AuthUsers[Apt(run).patient_id]
    IN
    /\ run.pc = "user"
    /\ \E outcome \in env.lookup :
          IF outcome = "result"
          THEN IF email # NULL
               THEN Set(r, [run EXCEPT !.pc = "email", !.patientEmail = email])
               ELSE Set(r, [Advance(run) EXCEPT !.pc = "loop"])
          ELSE Set(r, Caught(run))
    /\ UNCHANGED <<clock, tz, appointments, notifications, emailCalls, insertCalls>>

\* await supabase.auth.admin.getUserById(patient_id); patientEmail = authUser?.user?.email
\* if (patientEmail) goes on to the e-mail, otherwise straight to the insert.
GetUser(r, env) ==
    LET run == runs[r]
        email == AuthUsers[Apt(run).patient_id]
    IN
    /\ run.pc = "user"
    /\ \E outcome \in env.lookup :
          IF outcome = "result"
          THEN Set(r, [run EXCEPT !.pc = IF email # NULL THEN "email" ELSE "insert",
                                  !.patientEmail = email])
          ELSE Set(r, Caught(run))
    /\ UNCHANGED <<clock, tz, appointments, notifications, emailCalls, insertCalls>>

\* Variant of the request body: the names as the lookups returned them.
emailPayloadNoFallback(run) ==
    [type |-> "appointment_reminder",
     to |-> run.patientEmail,
     patientName |-> run.profile,
     doctorName |-> Doctors[Apt(run).doctor_id],
     date |-> Apt(run).appointment_date,
     time |-> Apt(run).appointment_time,
     reminderMinutes |-> Tier(run)]

\* The body of the request to send-email: patientName is
\* profile?.full_name || "Patient", doctorName as resolved above.
emailPayload(run) ==
    [type |-> "appointment_reminder",
     to |-> run.patientEmail,
     patientName |-> IF run.profile = NULL THEN "Patient" ELSE run.profile,
     doctorName |-> run.doctorName,
     date |-> Apt(run).appointment_date,
     time |-> Apt(run).appointment_time,
     reminderMinutes |-> Tier(run)]

\* Variant of the e-mail handling: a non-2xx answer is retried.
AfterEmailRetry(run, result) ==
    IF result = "not_ok" THEN run ELSE [run EXCEPT !.pc = "insert"]

\* Variant of the e-mail handling: no try/catch around the request.
AfterEmailUncaught(run, result) ==
    IF result = "throw" THEN Caught(run) ELSE [run EXCEPT !.pc = "insert"]

\* if (!emailRes.ok) log the status, else log success; catch (emailError) logs.
\* Whatever the result, control goes on to the insert.
AfterEmail(run, result) == [run EXCEPT !.pc = "insert"]

\* try { emailRes = await fetch(`${supabaseUrl}/functions/v1/send-email`, ...) }
SendEmail(r, env) ==
    LET run == runs[r] IN
    /\ run.pc = "email"
    /\ \E result \in env.email :
          /\ emailCalls' = Append(emailCalls,
                 [run |-> r, id |-> Apt(run).id, payload |-> emailPayload(run),
                  result |-> result])
          /\ Set(r, AfterEmail(run, result))
    /\ UNCHANGED <<clock, tz, appointments, notifications, insertCalls>>

\* Variant of the row: addressed to the doctor of the appointment.
notificationRowForDoctor(run) ==
    [user_id |-> Apt(run).doctor_id,
     title |-> <<"Appointment in", Tier(run), "minutes">>,
     message |-> <<"Your appointment with Dr.", run.doctorName, "starts in", Tier(run), "minutes.">>,
     type |-> "appointment_reminder",
     related_id |-> Apt(run).id,
     action_url |-> "/appointments"]

\* The row handed to the insert.
notificationRow(run) ==
    [user_id |-> Apt(run).patient_id,
     title |-> <<"Appointment in", Tier(run), "minutes">>,
     message |-> <<"Your appointment with Dr.", run.doctorName, "starts in", Tier(run), "minutes.">>,
     type |-> "appointment_reminder",
     related_id |-> Apt(run).id,
     action_url |-> "/appointments"]

\* Variant of the code after the insert: the loops are left after the first
\* reminder of the run.
AfterInsertBreak(run, result) ==
    IF result = "throw"
    THEN Caught(run)
    ELSE [Advance(run) EXCEPT !.pc = "loop", !.i = Len(run.appointments) + 1, !.k = 1,
             !.sentReminders = Append(run.sentReminders, <<Apt(run).id, Tier(run)>>)]

\* The code after the awaited insert: sentReminders.push(`${id}_${reminderTime}min`)
\* whatever { error } the insert returned; a rejected promise goes to the catch.
AfterInsert(run, result) ==
    IF result = "throw"
    THEN Caught(run)
    ELSE [Advance(run) EXCEPT !.pc = "loop",
             !.sentReminders = Append(run.sentReminders, <<Apt(run).id, Tier(run)>>)]

\* Variant of the table: one row per (related_id, title), a second insert of
\* the same reminder is dropped.
StoredUnique(rows, r, row, result) ==
    IF result = "ok" /\ ~\E n \in DOMAIN rows :
                            rows[n].row.related_id = row.related_id /\ rows[n].row.title = row.title
    THEN Append(rows, [run |-> r, row |-> row])
    ELSE rows

\* Variant of the table write: an upsert on (related_id, title), the row of an
\* earlier reminder of the same pair is replaced.
StoredUpsert(rows, r, row, result) ==
    IF result # "ok"
    THEN rows
    ELSE IF \E n \in DOMAIN rows :
                 rows[n].row.related_id = row.related_id /\ rows[n].row.title = row.title
         THEN [n \in DOMAIN rows |->
                  IF rows[n].row.related_id = row.related_id /\ rows[n].row.title = row.title
                  THEN [run |-> r, row |-> row]
                  ELSE rows[n]]
         ELSE Append(rows, [run |-> r, row |-> row])

\* Table notifications after an insert: the table has no uniqueness
\* constraint, an accepted row is appended.
Stored(rows, r, row, result) ==
    IF result = "ok" THEN Append(rows, [run |-> r, row |-> row]) ELSE rows

\* Variant of the insert step: the appointment is marked once reminded.
InsertNotificationMarking(r, env) ==
    LET run == runs[r] IN
    /\ run.pc = "insert"
    /\ \E result \in env.insert :
          /\ insertCalls' = Append(insertCalls,
                 [run |-> r, row |-> notificationRow(run), result |-> result])
          /\ notifications' = Stored(notifications, r, notificationRow(run), result)
          /\ Set(r, AfterInsert(run, result))
    /\ appointments' = [appointments EXCEPT ![Apt(run).id].status = "completed"]
    /\ UNCHANGED <<clock, tz, emailCalls>>

\* await supabase.from('notifications').insert({...}): the result is not looked at.
InsertNotification(r, env) ==
    LET run == runs[r] IN
    /\ run.pc = "insert"
    /\ \E result \in env.insert :
          /\ insertCalls' = Append(insertCalls,
                 [run |-> r, row |-> notificationRow(run), result |-> result])
          /\ notifications' = Stored(notifications, r, notificationRow(run), result)
          /\ Set(r, AfterInsert(run, result))
    /\ UNCHANGED <<clock, tz, appointments, emailCalls>>

Step(r, env) ==
    \/ Start(r, env)
    \/ Fetch(r, env)
    \/ Loop(r, env)
    \/ GetProfile(r, env)
    \/ GetDoctor(r, env)
    \/ GetUser(r, env)
    \/ SendEmail(r, env)
    \/ InsertNotification(r, env)

\* ------------------------------------------------------- specifications
\* One invocation of the handler, from the request to its response.
Next ==
    \/ Start(1, AnyOutcome)
    \/ Fetch(1, AnyOutcome)
    \/ Loop(1, AnyOutcome)
    \/ GetProfile(1, AnyOutcome)
    \/ GetDoctor(1, AnyOutcome)
    \/ GetUser(1, AnyOutcome)
    \/ SendEmail(1, AnyOutcome)
    \/ InsertNotification(1, AnyOutcome)

Spec == Init /\ [][Next]_vars

\* One invocation in which every awaited call comes back: once the request
\* has arrived, the handler's next step is eventually taken.
HandlerStep ==
    \/ Fetch(1, AnyOutcome)
    \/ Loop(1, AnyOutcome)
    \/ GetProfile(1, AnyOutcome)
    \/ GetDoctor(1, AnyOutcome)
    \/ GetUser(1, AnyOutcome)
    \/ SendEmail(1, AnyOutcome)
    \/ InsertNotification(1, AnyOutcome)

SpecLive == Init /\ [][Next]_vars /\ WF_vars(HandlerStep)

\* The other writers of table appointments. The doctor's dashboard offers
\* "complete" on every appointment not yet completed; the patient's list offers
\* "cancel" on the upcoming (scheduled) ones. Both update the row by id.
markAppointmentComplete(n) ==
    /\ appointments[n].status # "completed"
    /\ appointments' = [appointments EXCEPT ![n].status = "completed"]
    /\ UNCHANGED <<clock, tz, notifications, emailCalls, insertCalls, runs>>

cancelAppointment(n) ==
    /\ appointments[n].status = "scheduled"
    /\ appointments' = [appointments EXCEPT ![n].status = "cancelled"]
    /\ UNCHANGED <<clock, tz, notifications, emailCalls, insertCalls, runs>>

\* One invocation of the handler, every collaborator answering with success,
\* while doctors and patients go on using the application.
InitExt == InitWith({0})

NextExt ==
    \/ Start(1, NoFailure)
    \/ Fetch(1, NoFailure)
    \/ Loop(1, NoFailure)
    \/ GetProfile(1, NoFailure)
    \/ GetDoctor(1, NoFailure)
    \/ GetUser(1, NoFailure)
    \/ SendEmail(1, NoFailure)
    \/ InsertNotification(1, NoFailure)
    \/ \E n \in DOMAIN appointments : markAppointmentComplete(n)
    \/ \E n \in DOMAIN appointments : cancelAppointment(n)

SpecExt == InitExt /\ [][NextExt]_vars

\* The two awaited dispatches in two steps each: the request goes out and the
\* handler is suspended at the await; the call resolves (with a result or by
\* throwing) and the handler goes on. A call on its way is logged "pending".

\* Variant of the e-mail request: it is not awaited, the handler goes straight
\* on to the insert.
RequestEmailNoAwait(r, env) ==
    LET run == runs[r] IN
    /\ run.pc = "email"
    /\ emailCalls' = Append(emailCalls,
           [run |-> r, id |-> Apt(run).id, payload |-> emailPayload(run),
            result |-> "pending"])
    /\ Set(r, [run EXCEPT !.pc = "insert"])
    /\ UNCHANGED <<clock, tz, appointments, notifications, insertCalls>>

\* fetch(`${supabaseUrl}/functions/v1/send-email`, ...) is called; await
RequestEmail(r, env) ==
    LET run == runs[r] IN
    /\ run.pc = "email"
    /\ emailCalls' = Append(emailCalls,
           [run |-> r, id |-> Apt(run).id, payload |-> emailPayload(run),
            result |-> "pending"])
    /\ Set(r, [run EXCEPT !.pc = "awaitEmail"])
    /\ UNCHANGED <<clock, tz, appointments, notifications, insertCalls>>

\* the request to send-email resolves; the handler, if suspended on it, goes on
ResolveEmail(r, env) ==
    /\ \E n \in DOMAIN emailCalls : \E result \in env.email :
          /\ emailCalls[n].run = r /\ emailCalls[n].result = "pending"
          /\ emailCalls' = [emailCalls EXCEPT ![n].result = result]
          /\ IF runs[r].pc = "awaitEmail"
             THEN Set(r, AfterEmail(runs[r], result))
             ELSE UNCHANGED runs
    /\ UNCHANGED <<clock, tz, appointments, notifications, insertCalls>>

\* supabase.from('notifications').insert({...}) is called; await
RequestInsert(r, env) ==
    LET run == runs[r] IN
    /\ run.pc = "insert"
    /\ insertCalls' = Append(insertCalls,
           [run |-> r, row |-> notificationRow(run), result |-> "pending"])
    /\ Set(r, [run EXCEPT !.pc = "awaitInsert"])
    /\ UNCHANGED <<clock, tz, appointments, notifications, emailCalls>>

\* the insert resolves; the handler, if suspended on it, goes on
ResolveInsert(r, env) ==
    /\ \E n \in DOMAIN insertCalls : \E result \in env.insert :
          /\ insertCalls[n].run = r /\ insertCalls[n].result = "pending"
          /\ insertCalls' = [insertCalls EXCEPT ![n].result = result]
          /\ notifications' = Stored(notifications, r, insertCalls[n].row, result)
          /\ IF runs[r].pc = "awaitInsert"
             THEN Set(r, AfterInsert(runs[r], result))
             ELSE UNCHANGED runs
    /\ UNCHANGED <<clock, tz, appointments, emailCalls>>

\* One invocation with its awaits spelled out.
InitAwait == InitWith({0})

NextAwait ==
    \/ Start(1, AnyOutcome)
    \/ Fetch(1, AnyOutcome)
    \/ Loop(1, AnyOutcome)
    \/ GetProfile(1, AnyOutcome)
    \/ GetDoctor(1, AnyOutcome)
    \/ GetUser(1, AnyOutcome)
    \/ RequestEmail(1, AnyOutcome)
    \/ ResolveEmail(1, AnyOutcome)
    \/ RequestInsert(1, AnyOutcome)
    \/ ResolveInsert(1, AnyOutcome)

SpecAwait == InitAwait /\ [][NextAwait]_vars

\* Invocations one after the other, each reading a later minute than the one
\* before it: at most one per minute of the span the clock covers.
CadenceRuns == 1..(ClockSpan + 1)

InitCadence ==
    /\ tz = 0
    /\ clock = ClockStart
    /\ appointments \in { f \in [1..NumAppts -> UNION {{WithId(b, n) : b \in BookingsFor(n)} : n \in 1..NumAppts}] :
                            \A n \in 1..NumAppts : f[n].id = n }
    /\ Cardinality({n \in 1..NumAppts : IsCandidate(appointments[n], 0)}) = 1
    /\ notifications = <<>>
    /\ emailCalls = <<>>
    /\ insertCalls = <<>>
    /\ runs = [r \in CadenceRuns |-> IdleRun]

\* A request arrives after the previous invocation has answered, in a later
\* minute: new Date(), todayDate, currentHour, currentMinute.
StartNextMinute(r, env) ==
    /\ runs[r].pc = "idle"
    /\ \A q \in CadenceRuns : q < r => runs[q].pc = "done"
    /\ \E now \in (IF r = 1 THEN clock ELSE clock + 1) .. ClockStart + ClockSpan :
          /\ clock' = now
          /\ Set(r, [runs[r] EXCEPT !.pc = "fetch", !.now = now,
                                    !.todayDate = todayDateOf(now),
                                    !.currentHour = currentHourOf(now, tz),
                                    !.currentMinute = currentMinuteOf(now, tz)])
    /\ UNCHANGED <<tz, appointments, notifications, emailCalls, insertCalls>>

NextCadence ==
    \E r \in CadenceRuns :
        \/ StartNextMinute(r, SomeFailures)
        \/ Fetch(r, SomeFailures)
        \/ Loop(r, SomeFailures)
        \/ GetProfile(r, SomeFailures)
        \/ GetDoctor(r, SomeFailures)
        \/ GetUser(r, SomeFailures)
        \/ SendEmail(r, SomeFailures)
        \/ InsertNotification(r, SomeFailures)

SpecCadence == InitCadence /\ [][NextCadence]_vars

\* One invocation somewhere between 23:28 of day 0 and half past midnight of
\* day 1, with appointments booked shortly after midnight.
MidnightStart == 23 * 60 + 28
MidnightSpan == 60 + ClockSpan

MidnightBookings ==
    { Booking("p1", "d1", 1, Time(0, 30), "scheduled"),
      Booking("p1", "d1", 0, Time(0, 30), "scheduled"),
      Booking("p2", "d2", 1, Time(0, 5), "scheduled") }

InitMidnight ==
    /\ tz = 0
    /\ clock = MidnightStart
    /\ appointments \in { f \in [1..NumAppts -> {WithId(b, n) : b \in MidnightBookings, n \in 1..NumAppts}] :
                            \A n \in 1..NumAppts : f[n].id = n }
    /\ notifications = <<>>
    /\ emailCalls = <<>>
    /\ insertCalls = <<>>
    /\ runs = [r \in RunIds |-> IdleRun]

\* A request arrives: new Date(), todayDate, currentHour, currentMinute.
StartAroundMidnight(r, env) ==
    /\ runs[r].pc = "idle"
    /\ \E now \in clock .. MidnightStart + MidnightSpan :
          /\ clock' = now
          /\ Set(r, [runs[r] EXCEPT !.pc = "fetch", !.now = now,
                                    !.todayDate = todayDateOf(now),
                                    !.currentHour = currentHourOf(now, tz),
                                    !.currentMinute = currentMinuteOf(now, tz)])
    /\ UNCHANGED <<tz, appointments, notifications, emailCalls, insertCalls>>

NextMidnight ==
    \/ StartAroundMidnight(1, AnyOutcome)
    \/ Fetch(1, AnyOutcome)
    \/ Loop(1, AnyOutcome)
    \/ GetProfile(1, AnyOutcome)
    \/ GetDoctor(1, AnyOutcome)
    \/ GetUser(1, AnyOutcome)
    \/ SendEmail(1, AnyOutcome)
    \/ InsertNotification(1, AnyOutcome)

SpecMidnight == InitMidnight /\ [][NextMidnight]_vars

\* ------------------------------------------------ the send-email function
\* What the e-mail provider may do with the request of the function: answer
\* with a status (and a body that is JSON or not), or the request fails.
ProviderAnswers ==
    {[kind |-> "response", status |-> s, json |-> TRUE] : s \in {200, 403, 422, 500}}
       \cup {[kind |-> "response", status |-> 200, json |-> FALSE],
             [kind |-> "throw", status |-> 0, json |-> FALSE]}

\* Bodies a client may post: the two kinds of EmailRequest, a JSON object
\* without the fields, and something req.json() cannot parse.
RequestBodies == {"appointment_reminder", "appointment_confirmation", "incomplete", "invalid_json"}

\* response.ok of fetch
IsOk(status) == status \in 200..299

\* Variant of the function: whatever goes wrong with the provider is
\* answered with 500.
sendEmailMasking(keyConfigured, body, provider) ==
    IF ~keyConfigured \/ body = "invalid_json"
    THEN [status |-> 500, body |-> [error |-> "message"], providerCalled |-> FALSE]
    ELSE IF provider.kind = "response" /\ IsOk(provider.status) /\ provider.json
         THEN [status |-> 200, body |-> [success |-> TRUE, id |-> "id"], providerCalled |-> TRUE]
         ELSE [status |-> 500, body |-> [error |-> "message"], providerCalled |-> TRUE]

\* The handler of send-email for a POST: its response, and whether it called
\* the provider. Missing key and unparseable body throw before the call; a
\* body of any type but appointment_confirmation is sent as a reminder.
sendEmail(keyConfigured, body, provider) ==
    IF ~keyConfigured
    THEN [status |-> 500, body |-> [error |-> "message"], providerCalled |-> FALSE]
    ELSE IF body = "invalid_json"
    THEN [status |-> 500, body |-> [error |-> "message"], providerCalled |-> FALSE]
    ELSE IF provider.kind = "throw"
    THEN [status |-> 500, body |-> [error |-> "message"], providerCalled |-> TRUE]
    ELSE IF ~IsOk(provider.status)
    THEN [status |-> provider.status,
          body |-> [success |-> FALSE, status |-> provider.status, error |-> "errorText"],
          providerCalled |-> TRUE]
    ELSE IF ~provider.json
    THEN [status |-> 500, body |-> [error |-> "message"], providerCalled |-> TRUE]
    ELSE [status |-> 200, body |-> [success |-> TRUE, id |-> "id"], providerCalled |-> TRUE]

\* The scheduler's e-mail step with send-email answering:
\* emailRes = await fetch(.../functions/v1/send-email), then if (!emailRes.ok)
SendEmailViaFunction(r, env) ==
    LET run == runs[r] IN
    /\ run.pc = "email"
    /\ \E keyConfigured \in BOOLEAN : \E provider \in ProviderAnswers :
          LET response == sendEmail(keyConfigured, "appointment_reminder", provider)
              result == IF IsOk(response.status) THEN "ok" ELSE "not_ok"
          IN /\ emailCalls' = Append(emailCalls,
                    [run |-> r, id |-> Apt(run).id, payload |-> emailPayload(run),
                     result |-> result, keyConfigured |-> keyConfigured,
                     body |-> "appointment_reminder", provider |-> provider,
                     response |-> response])
             /\ Set(r, AfterEmail(run, result))
    /\ UNCHANGED <<clock, tz, appointments, notifications, insertCalls>>

\* Some other client posts to send-email (the booking page its confirmation,
\* or anyone anything), here before the scheduler's request arrives. Logged
\* with run 0.
PostToSendEmail ==
    /\ emailCalls = <<>>
    /\ \A r \in RunIds : runs[r].pc = "idle"
    /\ \E keyConfigured \in BOOLEAN : \E body \in RequestBodies : \E provider \in ProviderAnswers :
          LET response == sendEmail(keyConfigured, body, provider)
          IN emailCalls' = Append(emailCalls,
                 [run |-> 0, id |-> 0, payload |-> [reminderMinutes |-> 0],
                  result |-> IF IsOk(response.status) THEN "ok" ELSE "not_ok",
                  keyConfigured |-> keyConfigured, body |-> body,
                  provider |-> provider, response |-> response])
    /\ UNCHANGED <<clock, tz, appointments, notifications, insertCalls, runs>>

\* One invocation of the scheduler with send-email behind it, and another
\* client of send-email; the store answers with success.
InitMail ==
    /\ InitWith({0})
    /\ Cardinality({n \in 1..NumAppts : IsCandidate(appointments[n], 0)}) = 1

NextMail ==
    \/ Start(1, NoFailure)
    \/ Fetch(1, NoFailure)
    \/ Loop(1, NoFailure)
    \/ GetProfile(1, NoFailure)
    \/ GetDoctor(1, NoFailure)
    \/ GetUser(1, NoFailure)
    \/ SendEmailViaFunction(1, NoFailure)
    \/ InsertNotification(1, NoFailure)
    \/ PostToSendEmail

SpecMail == InitMail /\ [][NextMail]_vars

\* Invocations one after the other, as the design assumes: a request arrives
\* only when no other invocation is under way. One appointment is a
\* candidate today.
NoOtherActive(r) == \A q \in RunIds \ {r} : runs[q].pc \in {"idle", "done"}

InitSeq ==
    /\ InitWith({0})
    /\ Cardinality({n \in 1..NumAppts : IsCandidate(appointments[n], 0)}) = 1

StartAlone(r, env) == NoOtherActive(r) /\ Start(r, env)

NextSeq ==
    \E r \in RunIds :
        \/ StartAlone(r, AnyOutcome)
        \/ Fetch(r, AnyOutcome)
        \/ Loop(r, AnyOutcome)
        \/ GetProfile(r, AnyOutcome)
        \/ GetDoctor(r, AnyOutcome)
        \/ GetUser(r, AnyOutcome)
        \/ SendEmail(r, AnyOutcome)
        \/ InsertNotification(r, AnyOutcome)

SpecSeq == InitSeq /\ [][NextSeq]_vars

\* Overlapping invocations: the trigger fires again while an invocation is
\* still under way. Nothing in the handler takes a lock or a lease. The
\* collaborators all answer with success here.
NextOverlap == \E r \in RunIds : Step(r, NoFailure)

SpecOverlap == InitSeq /\ [][NextOverlap]_vars

\* ------------------------------------------------------ what is observed
Done(r) == runs[r].pc = "done"
Answered(r, status) == Done(r) /\ runs[r].response.status = status

\* The (appointment, tier) combinations of a run's candidate list, by position.
Positions(run) == (DOMAIN run.appointments) \X (DOMAIN reminderMinutes)

\* The loops are past position (i, k).
Passed(run, i, k) == i < run.i \/ (i = run.i /\ k < run.k)

\* The run is between the window test and the end of the insert for (i, k).
Dispatching(run, i, k) ==
    /\ run.pc \in {"profile", "doctor", "user", "email", "insert"}
    /\ run.i = i /\ run.k = k

\* Minutes, on the server's wall clock, from the run's clock reading to the
\* appointment's time of day (both as minutes since midnight).
LeadTime(run, apt) ==
    (apt.appointment_time[1] * 60 + apt.appointment_time[2]) - ((run.now + tz) % DayMinutes)

\* tier - 1 <= lead <= tier + 1
Due(run, apt, tier) == \E d \in {-1, 0, 1} : LeadTime(run, apt) = tier + d

EmailsFor(r, id, tier) ==
    {n \in DOMAIN emailCalls :
        /\ emailCalls[n].run = r /\ emailCalls[n].id = id
        /\ emailCalls[n].payload.reminderMinutes = tier}

InsertsFor(r, id, tier) ==
    {n \in DOMAIN insertCalls :
        /\ insertCalls[n].run = r /\ insertCalls[n].row.related_id = id
        /\ insertCalls[n].row.title[2] = tier}

RowsFor(r, id, tier) ==
    {n \in DOMAIN notifications :
        /\ notifications[n].run = r /\ notifications[n].row.related_id = id
        /\ notifications[n].row.title[2] = tier}

Pushed(run, id, tier) == \E n \in DOMAIN run.sentReminders : run.sentReminders[n] = <<id, tier>>

\* ---------------------------------------------------------------- claims

\* C1: for every candidate appointment, invocation time and tier of 60, 30, 10
\* the run treats the tier as due (goes on to dispatch it) if and only if
\* tier - 1 <= appointmentTime - currentTime <= tier + 1.
C1_DueIffWithinOneMinute ==
    \A r \in RunIds : \A pos \in Positions(runs[r]) :
        LET run == runs[r]
            apt == run.appointments[pos[1]]
            tier == reminderMinutes[pos[2]]
        IN /\ Passed(run, pos[1], pos[2]) => (Pushed(run, apt.id, tier) <=> Due(run, apt, tier))
           /\ Dispatching(run, pos[1], pos[2]) => Due(run, apt, tier)
           /\ ~Due(run, apt, tier) => EmailsFor(r, apt.id, tier) = {} /\ InsertsFor(r, apt.id, tier) = {}

\* A run that answered 200 after dispatching the 60-minute tier at T-61.
C1_Witness ==
    \E r \in RunIds : \E pos \in Positions(runs[r]) :
        /\ Answered(r, 200)
        /\ reminderMinutes[pos[2]] = 60
        /\ LeadTime(runs[r], runs[r].appointments[pos[1]]) = 61
        /\ Pushed(runs[r], runs[r].appointments[pos[1]].id, 60)

C3_InsertAttemptedAfterFailedEmail ==
    \A n \in DOMAIN emailCalls :
        LET e == emailCalls[n]
            run == runs[e.run]
        IN e.result # "ok" =>
              \/ /\ run.pc = "insert"
                 /\ Apt(run).id = e.id
                 /\ Tier(run) = e.payload.reminderMinutes
              \/ InsertsFor(e.run, e.id, e.payload.reminderMinutes) # {}

\* The request to send-email threw and the pair's row is in the table.
C3_Witness ==
    \E n \in DOMAIN emailCalls :
        /\ emailCalls[n].result = "throw"
        /\ RowsFor(emailCalls[n].run, emailCalls[n].id, emailCalls[n].payload.reminderMinutes) # {}
        /\ Done(emailCalls[n].run)

\* C4 as stated: a failure while processing a due pair never keeps the other
\* due pairs from being processed and never makes the run answer 500; only a
\* failed candidate fetch does.
C4_OnlyFetchFailureFailsTheRun ==
    \A r \in RunIds : Done(r) =>
        /\ runs[r].response.status = 500 => runs[r].fetched # "data"
        /\ runs[r].fetched = "data" =>
              \A pos \in Positions(runs[r]) :
                  LET apt == runs[r].appointments[pos[1]]
                      tier == reminderMinutes[pos[2]]
                  IN Due(runs[r], apt, tier) => InsertsFor(r, apt.id, tier) # {}

\* C5: when the candidate fetch fails, the invocation sends no e-mail, inserts
\* no notification row and answers 500 with an error body.
C5_FetchFailureAbortsWithNothingSent ==
    \A r \in RunIds : runs[r].fetched \in {"error", "throw"} =>
        /\ Answered(r, 500)
        /\ DOMAIN runs[r].response.body = {"error"}
        /\ \A n \in DOMAIN emailCalls : emailCalls[n].run # r
        /\ \A n \in DOMAIN insertCalls : insertCalls[n].run # r
        /\ \A n \in DOMAIN notifications : notifications[n].run # r

\* The fetch of a run returned an error while an appointment was a candidate
\* in its window.
C5_Witness ==
    \E r \in RunIds : \E n \in DOMAIN appointments : \E k \in DOMAIN reminderMinutes :
        /\ runs[r].fetched = "error"
        /\ IsCandidate(appointments[n], runs[r].todayDate)
        /\ Due(runs[r], appointments[n], reminderMinutes[k])

\* C6 as stated: an invocation that answers 500 has sent no e-mail and
\* inserted no notification row.
C6_ErrorOutcomeHasNoSideEffect ==
    \A r \in RunIds : Answered(r, 500) =>
        /\ \A n \in DOMAIN emailCalls : emailCalls[n].run = r => emailCalls[n].result # "ok"
        /\ \A n \in DOMAIN notifications : notifications[n].run # r

\* C7 as stated: remindersSent is the number of due pairs of the run whose
\* notification row was created.
C7_CountEqualsRowsCreated ==
    \A r \in RunIds : Answered(r, 200) =>
        runs[r].response.body.remindersSent
            = Cardinality({n \in DOMAIN notifications : notifications[n].run = r})

\* C8: an e-mail or a notification for an (appointment, tier) pair is only
\* ever produced by an invocation whose wall-clock minute lies in the pair's
\* window; an invocation outside every window (before, or after a window
\* that was missed or whose dispatch failed) produces nothing and answers 200
\* with no reminder and no error.
C8_NothingOutsideTheWindow ==
    /\ \A n \in DOMAIN emailCalls :
          Due(runs[emailCalls[n].run], appointments[emailCalls[n].id],
              emailCalls[n].payload.reminderMinutes)
    /\ \A n \in DOMAIN insertCalls :
          Due(runs[insertCalls[n].run], appointments[insertCalls[n].row.related_id],
              insertCalls[n].row.title[2])
    /\ \A r \in RunIds :
          (/\ Done(r)
           /\ runs[r].fetched = "data"
           /\ \A pos \in Positions(runs[r]) :
                 ~Due(runs[r], runs[r].appointments[pos[1]], reminderMinutes[pos[2]]))
          => /\ Answered(r, 200)
             /\ runs[r].response.body.remindersSent = 0

\* A run inside the window whose insert the store rejected, then a run after
\* the window that answered 200 with nothing sent: the pair has no row.
C8_Witness ==
    \E r1, r2 \in RunIds : \E n \in DOMAIN insertCalls :
        LET c == insertCalls[n]
            apt == appointments[c.row.related_id]
        IN /\ c.run = r1 /\ c.result = "error"
           /\ LeadTime(runs[r2], apt) < c.row.title[2] - 1
           /\ IsCandidate(apt, runs[r2].todayDate)
           /\ Answered(r2, 200)
           /\ runs[r2].response.body.remindersSent = 0
           /\ notifications = <<>>

\* C9: two invocations, one after the other, that both fall inside the window
\* of the same pair and both run to their 200 answer each call the insert for
\* it, whatever rows the table already holds; when the store accepts both
\* inserts the table then holds two rows for that (appointment, tier).
C9_SecondRunInsertsAgain ==
    \A r1, r2 \in RunIds : \A n \in DOMAIN appointments : \A k \in DOMAIN reminderMinutes :
        LET apt == appointments[n]
            tier == reminderMinutes[k]
            Accepted(r) == {m \in InsertsFor(r, apt.id, tier) : insertCalls[m].result = "ok"}
        IN (/\ r1 < r2
            /\ Answered(r1, 200) /\ Answered(r2, 200)
            /\ IsCandidate(apt, runs[r1].todayDate) /\ IsCandidate(apt, runs[r2].todayDate)
            /\ Due(runs[r1], apt, tier) /\ Due(runs[r2], apt, tier))
           => /\ Cardinality(InsertsFor(r1, apt.id, tier)) = 1
              /\ Cardinality(InsertsFor(r2, apt.id, tier)) = 1
              /\ (Accepted(r1) # {} /\ Accepted(r2) # {}) =>
                    Cardinality(RowsFor(r1, apt.id, tier) \cup RowsFor(r2, apt.id, tier)) = 2

\* Two finished runs in the same window, and two rows for the pair.
C9_Witness ==
    \E r1, r2 \in RunIds : \E n \in DOMAIN appointments : \E k \in DOMAIN reminderMinutes :
        /\ r1 < r2
        /\ Answered(r1, 200) /\ Answered(r2, 200)
        /\ Due(runs[r1], appointments[n], reminderMinutes[k])
        /\ Due(runs[r2], appointments[n], reminderMinutes[k])
        /\ Cardinality(RowsFor(r1, n, reminderMinutes[k])) = 1
        /\ Cardinality(RowsFor(r2, n, reminderMinutes[k])) = 1
        /\ Len(notifications) = 2

\* An invocation is under way.
Active(r) == runs[r].pc \notin {"idle", "done"}

\* C10: overlapping invocations are not mutually excluded. A request can
\* always start, whatever the other invocations are doing; an invocation under
\* way can always take its next step; and an invocation that answers 200 has
\* dispatched each of its due pairs itself, whatever the others dispatched.
C10_NoRunBlocksOrSuppressesAnother ==
    \A r \in RunIds :
        /\ (runs[r].pc = "idle" /\ \A q \in RunIds : q < r => runs[q].pc # "idle")
              => ENABLED Start(r, NoFailure)
        /\ Active(r) => ENABLED Step(r, NoFailure)
        /\ Answered(r, 200) =>
              \A pos \in Positions(runs[r]) :
                  LET apt == runs[r].appointments[pos[1]]
                      tier == reminderMinutes[pos[2]]
                  IN Due(runs[r], apt, tier) =>
                        /\ Cardinality(InsertsFor(r, apt.id, tier)) = 1
                        /\ Cardinality(EmailsFor(r, apt.id, tier))
                              = (IF AuthUsers[apt.patient_id] # NULL THEN 1 ELSE 0)

\* Two invocations under way at the same time have both sent the e-mail and
\* inserted the row for the same pair.
C10_Witness ==
    \E r1, r2 \in RunIds : \E n \in DOMAIN appointments : \E k \in DOMAIN reminderMinutes :
        /\ r1 # r2
        /\ Active(r1) /\ Active(r2)
        /\ EmailsFor(r1, n, reminderMinutes[k]) # {} /\ EmailsFor(r2, n, reminderMinutes[k]) # {}
        /\ RowsFor(r1, n, reminderMinutes[k]) # {} /\ RowsFor(r2, n, reminderMinutes[k]) # {}

\* C11: when the user directory has no e-mail address for the patient of a due
\* pair, the run sends no e-mail for that pair (it never reaches the e-mail
\* step with it), calls the notification insert for it exactly once, and the
\* loop goes on to the pairs after it.
C11_NoAddressNoEmailButInsert ==
    \A r \in RunIds : \A pos \in Positions(runs[r]) :
        LET run == runs[r]
            apt == run.appointments[pos[1]]
            tier == reminderMinutes[pos[2]]
        IN (Due(run, apt, tier) /\ AuthUsers[apt.patient_id] = NULL) =>
              /\ EmailsFor(r, apt.id, tier) = {}
              /\ ~(Dispatching(run, pos[1], pos[2]) /\ run.pc = "email")
              /\ Passed(run, pos[1], pos[2]) => Cardinality(InsertsFor(r, apt.id, tier)) = 1
              /\ Answered(r, 200) => Passed(run, pos[1], pos[2])

\* A run answered 200 after a due pair without an address (row stored, no
\* e-mail) and, after it in the list, a due pair with its e-mail and its row.
C11_Witness ==
    \E r \in RunIds : \E p, q \in Positions(runs[r]) :
        LET a == runs[r].appointments[p[1]]
            b == runs[r].appointments[q[1]]
        IN /\ Answered(r, 200)
           /\ p[1] < q[1]
           /\ Due(runs[r], a, reminderMinutes[p[2]])
           /\ AuthUsers[a.patient_id] = NULL
           /\ EmailsFor(r, a.id, reminderMinutes[p[2]]) = {}
           /\ Cardinality(RowsFor(r, a.id, reminderMinutes[p[2]])) = 1
           /\ Cardinality(EmailsFor(r, b.id, reminderMinutes[q[2]])) = 1
           /\ Cardinality(RowsFor(r, b.id, reminderMinutes[q[2]])) = 1

AtFetch(r, id) == runs[r].fetchedFrom[id]

\* At the candidate fetch of run r the appointment was scheduled and on the
\* date the run computed.
CandidateAtFetch(r, id) ==
    /\ id \in DOMAIN runs[r].fetchedFrom
    /\ AtFetch(r, id).status = "scheduled"
    /\ AtFetch(r, id).appointment_date = runs[r].todayDate

\* C13: every e-mail, every insert call and every stored notification row of a
\* run, and every pair the run is dispatching, refers to an appointment that at
\* the run's candidate fetch had status scheduled and the run's current date,
\* whatever doctors and patients did to the row before or after the fetch.
C13_SideEffectsOnlyForFetchedCandidates ==
    /\ \A n \in DOMAIN emailCalls : CandidateAtFetch(emailCalls[n].run, emailCalls[n].id)
    /\ \A n \in DOMAIN insertCalls :
          CandidateAtFetch(insertCalls[n].run, insertCalls[n].row.related_id)
    /\ \A n \in DOMAIN notifications :
          CandidateAtFetch(notifications[n].run, notifications[n].row.related_id)
    /\ \A r \in RunIds : \A i \in DOMAIN runs[r].appointments :
          CandidateAtFetch(r, runs[r].appointments[i].id)

\* A run answered 200 with a row stored for one appointment and nothing for
\* another that was in a tier's window on the same date but, by the time of
\* the fetch, had been cancelled or completed.
C13_Witness ==
    \E r \in RunIds : \E a, b \in DOMAIN appointments : \E k \in DOMAIN reminderMinutes :
        /\ Answered(r, 200)
        /\ RowsFor(r, a, reminderMinutes[k]) # {}
        /\ AtFetch(r, b).status \in {"cancelled", "completed"}
        /\ AtFetch(r, b).appointment_date = runs[r].todayDate
        /\ Due(runs[r], AtFetch(r, b), reminderMinutes[k])
        /\ \A t \in DOMAIN reminderMinutes :
              /\ EmailsFor(r, b, reminderMinutes[t]) = {}
              /\ InsertsFor(r, b, reminderMinutes[t]) = {}

\* The calendar date on the server's wall clock at the run's clock reading.
LocalDate(run) == (run.now + tz) \div DayMinutes

\* C14: the date a run selects candidates by is the server's local date at the
\* run's clock reading, the date that goes with the hour and minute the run
\* computes minutesUntil from, whatever the server's UTC offset.
C14_TodayDateIsServerLocalDate ==
    \A r \in RunIds : runs[r].pc # "idle" =>
        /\ runs[r].todayDate = LocalDate(runs[r])
        /\ runs[r].currentHour * 60 + runs[r].currentMinute
              = (runs[r].now + tz) % DayMinutes

\* C15: for a candidate whose time of day is earlier than the run's current
\* time (minutesUntil < 0) no tier is due: the run never dispatches a pair of
\* that appointment, sends no e-mail and calls no insert for it, and does not
\* count it.
C15_NothingForPastAppointment ==
    \A r \in RunIds : \A pos \in Positions(runs[r]) :
        LET run == runs[r]
            apt == run.appointments[pos[1]]
            tier == reminderMinutes[pos[2]]
        IN (LeadTime(run, apt) < 0 /\ minutesUntilAppointment(apt, run) < 0) =>
              /\ ~Due(run, apt, tier)
              /\ ~Dispatching(run, pos[1], pos[2])
              /\ EmailsFor(r, apt.id, tier) = {}
              /\ InsertsFor(r, apt.id, tier) = {}
              /\ RowsFor(r, apt.id, tier) = {}
              /\ ~Pushed(run, apt.id, tier)

\* A run answered 200 having gone through a candidate ten minutes in the past
\* (nothing dispatched for it) and a candidate with a due tier (row stored).
C15_Witness ==
    \E r \in RunIds : \E i, j \in DOMAIN runs[r].appointments :
        /\ Answered(r, 200)
        /\ LeadTime(runs[r], runs[r].appointments[i]) = -10
        /\ minutesUntilAppointment(runs[r].appointments[i], runs[r]) = -10
        /\ \A n \in DOMAIN insertCalls : insertCalls[n].row.related_id # runs[r].appointments[i].id
        /\ \A n \in DOMAIN emailCalls : emailCalls[n].id # runs[r].appointments[i].id
        /\ \E k \in DOMAIN reminderMinutes :
              RowsFor(r, runs[r].appointments[j].id, reminderMinutes[k]) # {}

\* The due (appointment, tier) positions among a run's candidates.
DuePairs(r) ==
    {pos \in Positions(runs[r]) :
        Due(runs[r], runs[r].appointments[pos[1]], reminderMinutes[pos[2]])}

\* Run r answered 200 and none of its e-mail requests or inserts failed.
NoExternalFailure(r) ==
    /\ Answered(r, 200)
    /\ \A n \in DOMAIN emailCalls : emailCalls[n].run = r => emailCalls[n].result = "ok"
    /\ \A n \in DOMAIN insertCalls : insertCalls[n].run = r => insertCalls[n].result = "ok"

\* Every due pair of run r has an e-mail address on file.
EmailsResolvable(r) ==
    \A pos \in DuePairs(r) : AuthUsers[runs[r].appointments[pos[1]].patient_id] # NULL

\* C16: in an invocation without external failure and with resolvable
\* addresses the number of rows inserted, the number of e-mail dispatches and
\* the count in the response all equal the number of due pairs among the
\* candidates; and in any invocation a pair that is not due causes no lookup,
\* no e-mail and no insert.
C16_OneRowAndOneEmailPerDuePair ==
    \A r \in RunIds :
        /\ (NoExternalFailure(r) /\ EmailsResolvable(r)) =>
              /\ Cardinality({n \in DOMAIN notifications : notifications[n].run = r})
                    = Cardinality(DuePairs(r))
              /\ Cardinality({n \in DOMAIN insertCalls : insertCalls[n].run = r})
                    = Cardinality(DuePairs(r))
              /\ Cardinality({n \in DOMAIN emailCalls : emailCalls[n].run = r})
                    = Cardinality(DuePairs(r))
              /\ runs[r].response.body.remindersSent = Cardinality(DuePairs(r))
        /\ \A pos \in Positions(runs[r]) \ DuePairs(r) :
              LET apt == runs[r].appointments[pos[1]]
                  tier == reminderMinutes[pos[2]]
              IN /\ ~Dispatching(runs[r], pos[1], pos[2])
                 /\ EmailsFor(r, apt.id, tier) = {}
                 /\ InsertsFor(r, apt.id, tier) = {}

\* Three candidates, one of them with one due tier: the run answered 200 with
\* exactly one row stored and exactly one e-mail dispatched.
C16_Witness ==
    \E r \in RunIds :
        /\ NoExternalFailure(r) /\ EmailsResolvable(r)
        /\ Len(runs[r].appointments) = 3
        /\ Cardinality(DuePairs(r)) = 1
        /\ Len(notifications) = 1
        /\ Len(emailCalls) = 1
        /\ runs[r].response.body.remindersSent = 1

\* An e-mail dispatch or a notification insert of run r failed.
ItemFailed(r) ==
    \/ \E n \in DOMAIN emailCalls : emailCalls[n].run = r /\ emailCalls[n].result # "ok"
    \/ \E n \in DOMAIN insertCalls : insertCalls[n].run = r /\ insertCalls[n].result # "ok"

\* C17: when an e-mail dispatch or a notification insert of a run failed, the
\* response of the run says so: its body has something besides success = TRUE
\* and the count of reminders sent.
C17_ResponseReportsItemFailures ==
    \A r \in RunIds : (Answered(r, 200) /\ ItemFailed(r)) =>
        \/ DOMAIN runs[r].response.body # {"success", "remindersSent"}
        \/ runs[r].response.body.success # TRUE

\* The two responses of the handler.
IsSuccessResponse(resp) ==
    /\ resp.status = 200
    /\ DOMAIN resp.body = {"success", "remindersSent"}
    /\ resp.body.success = TRUE
    /\ resp.body.remindersSent \in Nat

IsErrorResponse(resp) ==
    /\ resp.status = 500
    /\ DOMAIN resp.body = {"error"}

\* C18: an invocation that has ended has answered with exactly one of
\* 200 {success: true, remindersSent: n}, n >= 0, and 500 {error: message},
\* and takes no further step; an invocation that has not ended has answered
\* nothing yet and can take its next step.
C18_ExactlyOneOfTwoResponses ==
    \A r \in RunIds :
        /\ Done(r) =>
              /\ IsSuccessResponse(runs[r].response) # IsErrorResponse(runs[r].response)
              /\ ~ENABLED Step(r, AnyOutcome)
        /\ ~Done(r) => runs[r].response = NULL
        /\ Active(r) => ENABLED Step(r, AnyOutcome)

\* A run that found candidates but no due pair answered 200 with
\* remindersSent = 0.
C18_Witness ==
    \E r \in RunIds :
        /\ Done(r)
        /\ IsSuccessResponse(runs[r].response)
        /\ runs[r].response.body.remindersSent = 0
        /\ Len(runs[r].appointments) > 0
        /\ DuePairs(r) = {}

\* C19: a step of an invocation, whatever its outcome, leaves every row of
\* table appointments as it was; rows change only by what doctors and patients
\* do in the application.
C19_SchedulerNeverWritesAppointments ==
    [][runs' # runs => appointments' = appointments]_vars

\* A run stored a reminder and answered 200; the appointment it reminded of is
\* still scheduled, its row the one the fetch saw, while another row was
\* changed in the application after the fetch.
C19_Witness ==
    \E r \in RunIds : \E a, b \in DOMAIN appointments : \E k \in DOMAIN reminderMinutes :
        /\ Answered(r, 200)
        /\ RowsFor(r, a, reminderMinutes[k]) # {}
        /\ appointments[a] = AtFetch(r, a)
        /\ appointments[a].status = "scheduled"
        /\ appointments[b] # AtFetch(r, b)

\* C20: across invocations table notifications only grows at its end: every
\* row that was there before a step is there, unchanged and in its place,
\* after it.
C20_NotificationsAppendOnly ==
    [][/\ Len(notifications') >= Len(notifications)
       /\ SubSeq(notifications', 1, Len(notifications)) = notifications]_vars

\* The row a first invocation stored is still the first row after a second
\* invocation stored a row for the same pair and answered.
C20_Witness ==
    /\ Len(notifications) >= 2
    /\ notifications[1].run = 1 /\ notifications[2].run = 2
    /\ notifications[1].row = notifications[2].row
    /\ Answered(2, 200)

\* The calls of run r that have gone out and not resolved yet.
PendingEmails(r) ==
    {n \in DOMAIN emailCalls : emailCalls[n].run = r /\ emailCalls[n].result = "pending"}

PendingInserts(r) ==
    {n \in DOMAIN insertCalls : insertCalls[n].run = r /\ insertCalls[n].result = "pending"}

\* C21: when an invocation has produced its response none of its e-mail
\* dispatches and none of its notification inserts is still on its way; while
\* one is on its way the handler is suspended on it and on nothing else.
C21_ResponseAfterEveryDispatchResolved ==
    \A r \in RunIds :
        /\ Done(r) => PendingEmails(r) = {} /\ PendingInserts(r) = {}
        /\ PendingEmails(r) # {} =>
              /\ runs[r].pc = "awaitEmail"
              /\ Cardinality(PendingEmails(r)) = 1 /\ PendingInserts(r) = {}
        /\ PendingInserts(r) # {} =>
              /\ runs[r].pc = "awaitInsert"
              /\ Cardinality(PendingInserts(r)) = 1 /\ PendingEmails(r) = {}

\* A run answered 200 after two pairs: every one of its calls has resolved,
\* among them an e-mail request that failed and an insert that returned an error.
C21_Witness ==
    \E r \in RunIds :
        /\ Answered(r, 200)
        /\ Len(runs[r].sentReminders) = 2
        /\ \E n \in DOMAIN emailCalls : emailCalls[n].run = r /\ emailCalls[n].result = "throw"
        /\ \E n \in DOMAIN insertCalls : insertCalls[n].run = r /\ insertCalls[n].result = "error"
        /\ PendingEmails(r) = {} /\ PendingInserts(r) = {}

\* The pairs a run counted as sent.
PushedPairs(r) == {runs[r].sentReminders[n] : n \in DOMAIN runs[r].sentReminders}

\* The pairs that are due given a clock reading and the content of table
\* appointments, and nothing else.
PairsDueAt(now, table) ==
    {p \in (DOMAIN table) \X {reminderMinutes[k] : k \in DOMAIN reminderMinutes} :
        /\ table[p[1]].status = "scheduled"
        /\ table[p[1]].appointment_date = now \div DayMinutes
        /\ \E d \in {-1, 0, 1} :
              (table[p[1]].appointment_time[1] * 60 + table[p[1]].appointment_time[2])
                 - ((now + tz) % DayMinutes) = p[2] + d}

\* C22: what a run that answers 200 dispatches is determined by its clock
\* reading and the appointments it fetched: two invocations with the same
\* reading and the same table dispatch the same pairs, whatever the earlier one
\* left in table notifications.
C22_DispatchIndependentOfEarlierRuns ==
    /\ \A r \in RunIds : Answered(r, 200) =>
           PushedPairs(r) = PairsDueAt(runs[r].now, runs[r].fetchedFrom)
    /\ \A r1, r2 \in RunIds :
           (/\ Answered(r1, 200) /\ Answered(r2, 200)
            /\ runs[r1].now = runs[r2].now
            /\ runs[r1].fetchedFrom = runs[r2].fetchedFrom)
           => /\ PushedPairs(r1) = PushedPairs(r2)
              /\ {insertCalls[n].row : n \in {c \in DOMAIN insertCalls : insertCalls[c].run = r1}}
                    = {insertCalls[n].row : n \in {c \in DOMAIN insertCalls : insertCalls[c].run = r2}}

\* A second invocation read the same minute as the first, found the first
\* one's row in the table, and dispatched the same pair again.
C22_Witness ==
    \E r1, r2 \in RunIds :
        /\ r1 < r2
        /\ Answered(r1, 200) /\ Answered(r2, 200)
        /\ runs[r1].now = runs[r2].now
        /\ PushedPairs(r1) # {} /\ PushedPairs(r1) = PushedPairs(r2)
        /\ \E n, c \in DOMAIN notifications :
              /\ n < c
              /\ notifications[n].run = r1 /\ notifications[c].run = r2
              /\ notifications[n].row = notifications[c].row

\* The tiers, as a set.
Tiers == {reminderMinutes[k] : k \in DOMAIN reminderMinutes}

\* C23: every row handed to the notification insert is addressed to the
\* appointment's patient, has type appointment_reminder, the appointment's id
\* as related_id and the minutes of a tier due for that appointment in its
\* title and message; every e-mail request has type appointment_reminder, the
\* patient's address on file as recipient, the appointment's date and time, and
\* reminderMinutes equal to a tier due for that appointment.
C23_RowAndEmailDescribeTheDuePair ==
    /\ \A n \in DOMAIN insertCalls :
          LET c == insertCalls[n]
              apt == AtFetch(c.run, c.row.related_id)
          IN /\ c.row.related_id \in DOMAIN runs[c.run].fetchedFrom
             /\ c.row.user_id = apt.patient_id
             /\ c.row.type = "appointment_reminder"
             /\ c.row.title[2] \in Tiers
             /\ c.row.title = <<"Appointment in", c.row.title[2], "minutes">>
             /\ c.row.message[4] = c.row.title[2]
             /\ Due(runs[c.run], apt, c.row.title[2])
    /\ \A n \in DOMAIN emailCalls :
          LET c == emailCalls[n]
              apt == AtFetch(c.run, c.id)
          IN /\ c.payload.type = "appointment_reminder"
             /\ c.payload.to # NULL
             /\ c.payload.to = AuthUsers[apt.patient_id]
             /\ c.payload.date = apt.appointment_date
             /\ c.payload.time = apt.appointment_time
             /\ c.payload.reminderMinutes \in Tiers
             /\ Due(runs[c.run], apt, c.payload.reminderMinutes)
    /\ \A n \in DOMAIN notifications :
          \E c \in DOMAIN insertCalls :
              /\ insertCalls[c].run = notifications[n].run
              /\ insertCalls[c].row = notifications[n].row

\* The 30-minute reminder of patient p2's appointment: an e-mail to bo@mail
\* and a stored row for user p2.
C23_Witness ==
    \E n \in DOMAIN notifications : \E c \in DOMAIN emailCalls :
        /\ notifications[n].row.user_id = "p2"
        /\ notifications[n].row.title[2] = 30
        /\ emailCalls[c].id = notifications[n].row.related_id
        /\ emailCalls[c].run = notifications[n].run
        /\ emailCalls[c].payload.to = "bo@mail"
        /\ emailCalls[c].payload.reminderMinutes = 30
        /\ emailCalls[c].payload.time = Time(12, 0)

\* Rows in table notifications, and insert calls, for a pair, whichever
\* invocation made them.
AllRowsFor(id, tier) ==
    {n \in DOMAIN notifications :
        notifications[n].row.related_id = id /\ notifications[n].row.title[2] = tier}

AllInsertsFor(id, tier) ==
    {n \in DOMAIN insertCalls :
        insertCalls[n].row.related_id = id /\ insertCalls[n].row.title[2] = tier}

\* Invocations r, r + 1, r + 2 ran in three consecutive minutes, without
\* external failure, the first of them at lead time tier + 1.
ThreeInARow(r, id, tier) ==
    /\ r + 2 \in DOMAIN runs
    /\ \A q \in r .. r + 2 : NoExternalFailure(q)
    /\ runs[r + 1].now = runs[r].now + 1
    /\ runs[r + 2].now = runs[r].now + 2
    /\ LeadTime(runs[r], appointments[id]) = tier + 1

\* C24: with invocations one after the other, no two of them in the same
\* minute, no (appointment, tier) pair ever has more than three notification
\* rows (or insert calls); three failure-free invocations in the three minutes
\* of the pair's window (lead times tier + 1, tier, tier - 1) leave exactly three.
C24_AtMostThreeRowsPerPair ==
    /\ \A r1, r2 \in DOMAIN runs :
          (r1 < r2 /\ runs[r2].pc # "idle") => runs[r1].now < runs[r2].now
    /\ \A id \in DOMAIN appointments : \A tier \in Tiers :
          /\ Cardinality(AllRowsFor(id, tier)) <= 3
          /\ Cardinality(AllInsertsFor(id, tier)) <= 3
          /\ (IsCandidate(appointments[id], 0) /\ \E r \in DOMAIN runs : ThreeInARow(r, id, tier))
                => Cardinality(AllRowsFor(id, tier)) = 3

\* An invocation in every minute from 11:28 to 11:32, all answered 200 without
\* failure: the 60-minute reminder of the 12:30 appointment has three rows.
C24_Witness ==
    \E id \in DOMAIN appointments :
        /\ \A r \in DOMAIN runs : NoExternalFailure(r)
        /\ \A r \in DOMAIN runs : r + 1 \in DOMAIN runs => runs[r + 1].now = runs[r].now + 1
        /\ ThreeInARow(2, id, 60)
        /\ Cardinality(AllRowsFor(id, 60)) = 3
        /\ Len(notifications) = 3

\* Invocations ra .. rb ran without external failure, no more than three
\* minutes apart, the first at or before lead time tier + 1 and the last at or
\* after lead time tier - 1.
CoveredBy(ra, rb, id, tier) ==
    /\ ra <= rb
    /\ \A q \in ra .. rb : NoExternalFailure(q)
    /\ \A q \in ra .. rb - 1 : runs[q + 1].now - runs[q].now <= 3
    /\ LeadTime(runs[ra], appointments[id]) >= tier + 1
    /\ LeadTime(runs[rb], appointments[id]) <= tier - 1

\* C25: for an appointment scheduled today, when failure-free invocations
\* at most three minutes apart reach from lead time tier + 1 or earlier to
\* lead time tier - 1 or later, the pair has at least one notification row.
C25_GapOfThreeNeverMissesATier ==
    \A id \in DOMAIN appointments : \A tier \in Tiers :
        (IsCandidate(appointments[id], 0)
           /\ \E ra, rb \in DOMAIN runs : CoveredBy(ra, rb, id, tier))
        => AllRowsFor(id, tier) # {}

\* Two invocations three minutes apart, at lead times 62 and 59: the second
\* one stored the pair's only row.
C25_Witness ==
    \E id \in DOMAIN appointments :
        /\ CoveredBy(1, 2, id, 60)
        /\ LeadTime(runs[1], appointments[id]) = 62
        /\ LeadTime(runs[2], appointments[id]) = 59
        /\ Cardinality(AllRowsFor(id, 60)) = 1
        /\ notifications[1].run = 2

\* The schedule with a gap of four minutes: invocations at lead times 62 and
\* 58, both without failure, and no row for the 60-minute tier.
C25_TierMissedWithGapOfFour ==
    \E id \in DOMAIN appointments :
        /\ IsCandidate(appointments[id], 0)
        /\ NoExternalFailure(1) /\ NoExternalFailure(2)
        /\ LeadTime(runs[1], appointments[id]) = 62
        /\ LeadTime(runs[2], appointments[id]) = 58
        /\ AllRowsFor(id, 60) = {}
        /\ AllInsertsFor(id, 60) = {}

\* The lead times at which the window test accepts a tier.
WindowOf(tier) == {m \in tier - 3 .. tier + 3 : InWindow(m, tier)}

\* C26: the windows of the three tiers are 59..61, 29..31 and 9..11, pairwise
\* disjoint; so in one invocation at most one tier is due for a candidate, and
\* the invocation makes at most one insert call and at most one e-mail
\* dispatch for it.
C26_AtMostOneTierPerAppointmentPerRun ==
    /\ \A t \in Tiers : WindowOf(t) = t - 1 .. t + 1
    /\ \A t1, t2 \in Tiers : t1 # t2 => WindowOf(t1) \cap WindowOf(t2) = {}
    /\ \A r \in RunIds : \A i \in DOMAIN runs[r].appointments :
          LET apt == runs[r].appointments[i] IN
          /\ Cardinality({t \in Tiers : Due(runs[r], apt, t)}) <= 1
          /\ Cardinality({n \in DOMAIN insertCalls :
                 insertCalls[n].run = r /\ insertCalls[n].row.related_id = apt.id}) <= 1
          /\ Cardinality({n \in DOMAIN emailCalls :
                 emailCalls[n].run = r /\ emailCalls[n].id = apt.id}) <= 1
          /\ Cardinality({n \in DOMAIN runs[r].sentReminders :
                 runs[r].sentReminders[n][1] = apt.id}) <= 1

\* A run answered 200 with three candidates, each reminded once: three rows,
\* for the 60-minute tier of two appointments and another tier of the third.
C26_Witness ==
    \E r \in RunIds :
        /\ Answered(r, 200)
        /\ Len(runs[r].appointments) = 3
        /\ Len(notifications) = 3
        /\ \A i \in 1..3 :
              Cardinality({n \in DOMAIN notifications :
                  notifications[n].row.related_id = runs[r].appointments[i].id}) = 1
        /\ Cardinality({notifications[n].row.title[2] : n \in DOMAIN notifications}) = 2

\* Minutes after midnight of an appointment's time of day.
TimeOfDay(apt) == apt.appointment_time[1] * 60 + apt.appointment_time[2]

\* C27: a tier is never dispatched for an appointment whose time of day is
\* less than tier - 1 minutes after midnight, whenever the invocation runs, on
\* the day before or on the day itself: no dispatch, no e-mail, no insert, no
\* row. An appointment at 00:30 never gets the 60-minute reminder.
C27_NoTierReachingBeforeMidnight ==
    /\ \A r \in RunIds : \A pos \in Positions(runs[r]) :
          LET apt == runs[r].appointments[pos[1]]
              tier == reminderMinutes[pos[2]]
          IN TimeOfDay(apt) < tier - 1 =>
                /\ ~Dispatching(runs[r], pos[1], pos[2])
                /\ ~Pushed(runs[r], apt.id, tier)
    /\ \A n \in DOMAIN insertCalls :
          TimeOfDay(appointments[insertCalls[n].row.related_id]) >= insertCalls[n].row.title[2] - 1
    /\ \A n \in DOMAIN emailCalls :
          TimeOfDay(appointments[emailCalls[n].id]) >= emailCalls[n].payload.reminderMinutes - 1
    /\ \A n \in DOMAIN notifications :
          TimeOfDay(appointments[notifications[n].row.related_id]) >= notifications[n].row.title[2] - 1

\* The invocation at 23:30 of day 0, sixty minutes before an appointment
\* scheduled for 00:30 of day 1, answered 200 with nothing sent.
C27_Witness ==
    \E r \in RunIds : \E id \in DOMAIN appointments :
        /\ Answered(r, 200)
        /\ runs[r].now = 23 * 60 + 30
        /\ appointments[id].appointment_date = 1
        /\ appointments[id].appointment_time = Time(0, 30)
        /\ appointments[id].status = "scheduled"
        /\ runs[r].response.body.remindersSent = 0
        /\ insertCalls = <<>> /\ emailCalls = <<>>

\* C28: the list a run works on is the result of its one fetch and stays
\* what it was; a due pair of that list gets its insert and (address on file)
\* its e-mail once the loop is past it, whatever has become of the
\* appointment's row since the fetch; a row that was not scheduled at the
\* fetch gets nothing.
C28_DecidedOnTheFetchSnapshot ==
    \A r \in RunIds :
        /\ runs[r].fetched = "data" =>
              runs[r].appointments = SelectCandidates(runs[r].fetchedFrom, runs[r].todayDate)
        /\ \A pos \in Positions(runs[r]) :
              LET apt == runs[r].appointments[pos[1]]
                  tier == reminderMinutes[pos[2]]
              IN (Passed(runs[r], pos[1], pos[2]) /\ Due(runs[r], apt, tier)) =>
                    /\ Cardinality(InsertsFor(r, apt.id, tier)) = 1
                    /\ Cardinality(EmailsFor(r, apt.id, tier))
                          = (IF AuthUsers[apt.patient_id] # NULL THEN 1 ELSE 0)
                    /\ appointments[apt.id].status \in {"scheduled", "completed", "cancelled"}
        /\ \A id \in DOMAIN runs[r].fetchedFrom :
              AtFetch(r, id).status # "scheduled" =>
                  /\ \A n \in DOMAIN insertCalls :
                        insertCalls[n].run = r => insertCalls[n].row.related_id # id
                  /\ \A n \in DOMAIN emailCalls :
                        emailCalls[n].run = r => emailCalls[n].id # id

\* The run has sent the e-mail of a pair and is at the pair's insert; the
\* appointment, scheduled when fetched, has been cancelled in the meantime.
\* Another appointment, cancelled before the fetch, is not in the list.
C28_Witness ==
    \E r \in RunIds : \E b \in DOMAIN appointments :
        LET run == runs[r] IN
        /\ run.pc = "insert"
        /\ AtFetch(r, Apt(run).id).status = "scheduled"
        /\ appointments[Apt(run).id].status = "cancelled"
        /\ EmailsFor(r, Apt(run).id, Tier(run)) # {}
        /\ AtFetch(r, b).status = "cancelled"
        /\ AtFetch(r, b).appointment_date = run.todayDate
        /\ \A i \in DOMAIN run.appointments : run.appointments[i].id # b

\* The position after (i, k) in the order of the loops.
NextPosition(i, k) == IF k < Len(reminderMinutes) THEN <<i, k + 1>> ELSE <<i + 1, 1>>

\* A step of run r keeps the loops at their position or moves them to the
\* next one; the lookups, the e-mail and the insert of a pair happen at the
\* pair's position; the list is fixed once fetched.
OnePassInOrder(r) ==
    LET a == runs[r]
        b == runs'[r]
    IN /\ <<b.i, b.k>> \in {<<a.i, a.k>>, NextPosition(a.i, a.k)}
       /\ (a.pc = "loop" /\ b.pc = "loop") => <<b.i, b.k>> = NextPosition(a.i, a.k)
       /\ (a.pc = "loop" /\ b.pc = "profile") => <<b.i, b.k>> = <<a.i, a.k>>
       /\ (a.pc = "insert" /\ b.pc = "loop") => <<b.i, b.k>> = NextPosition(a.i, a.k)
       /\ a.pc \in {"loop", "profile", "doctor", "user", "email", "insert"}
             => b.appointments = a.appointments
       /\ (a.pc # "done" /\ b.pc = "done" /\ b.response.status = 200)
             => a.i = Len(a.appointments) + 1

\* C29: an invocation that has started eventually answers, provided every
\* awaited call comes back; on the way the loops visit the (appointment, tier)
\* positions once each, appointments in list order, tiers in the order
\* 60, 30, 10.
C29_EveryRunAnswersAfterOnePass ==
    /\ [][reminderMinutes = <<60, 30, 10>> /\ \A r \in RunIds : OnePassInOrder(r)]_vars
    /\ \A r \in {1} : (runs[r].pc # "idle") ~> Done(r)

\* A run with three candidates answered 200 having gone through all nine
\* positions and reminded the three appointments in list order.
C29_Witness ==
    \E r \in RunIds :
        /\ Answered(r, 200)
        /\ Len(runs[r].appointments) = 3
        /\ runs[r].i = 4 /\ runs[r].k = 1
        /\ Len(runs[r].sentReminders) = 3
        /\ \A n \in 1..3 : runs[r].sentReminders[n][1] = runs[r].appointments[n].id

\* The provider answered the function's request with a status that is not 2xx.
ProviderRejected(c) ==
    c.response.providerCalled /\ c.provider.kind = "response" /\ ~IsOk(c.provider.status)

\* C30: send-email answers a provider rejection with the provider's own
\* status and success = FALSE; answers a missing RESEND_API_KEY or a body it
\* cannot parse with 500 and without calling the provider; answers 200 with
\* success = TRUE only when the provider accepted the message. The scheduler
\* sees a provider rejection as a failed (non-2xx) e-mail and goes on to the
\* pair's insert.
C30_SendEmailPassesProviderStatusThrough ==
    \A n \in DOMAIN emailCalls :
        LET c == emailCalls[n] IN
        /\ ProviderRejected(c) =>
              /\ c.response.status = c.provider.status
              /\ c.response.body.success = FALSE
              /\ c.response.body.status = c.provider.status
        /\ (~c.keyConfigured \/ c.body = "invalid_json") =>
              /\ c.response.status = 500
              /\ ~c.response.providerCalled
              /\ DOMAIN c.response.body = {"error"}
        /\ c.response.status = 200 =>
              /\ c.response.body.success = TRUE
              /\ c.keyConfigured /\ c.body # "invalid_json"
              /\ c.response.providerCalled
              /\ c.provider.kind = "response" /\ IsOk(c.provider.status)
        /\ ("success" \in DOMAIN c.response.body /\ c.response.body.success = TRUE) =>
              c.response.status = 200
        /\ (c.run \in RunIds /\ ProviderRejected(c)) =>
              /\ c.result = "not_ok"
              /\ \/ runs[c.run].pc = "insert" /\ Apt(runs[c.run]).id = c.id
                 \/ InsertsFor(c.run, c.id, c.payload.reminderMinutes) # {}

\* The provider answered 403 to the reminder of a pair: send-email answered
\* 403 with success = FALSE, the scheduler logged a failed e-mail, stored the
\* pair's row and answered 200.
C30_Witness ==
    \E n \in DOMAIN emailCalls :
        LET c == emailCalls[n] IN
        /\ c.run \in RunIds
        /\ c.provider.kind = "response" /\ c.provider.status = 403
        /\ c.response.status = 403
        /\ c.response.body.success = FALSE
        /\ c.result = "not_ok"
        /\ RowsFor(c.run, c.id, c.payload.reminderMinutes) # {}
        /\ Answered(c.run, 200)

====
